---- MODULE Spec2Model ----
(***************************************************************************)
(* Model of BinanceTradingBot (src/bot.py): the indicator frame, the       *)
(* four-vote signal generator, the stop-loss / take-profit position        *)
(* manager, one strategy cycle (run_strategy) and the run loop (run).      *)
(*                                                                         *)
(* Units.  Prices are integers in tenths of a quote unit (1000 = 100.0).   *)
(* Percentages are integers in percent, so                                 *)
(*   price <= entry * (1 - stop_loss_pct)                                  *)
(* is computed exactly as  price * 100 <= entry * (100 - stop_loss_pct).   *)
(* Amounts are integers in units of 0.001 BTC.                             *)
(*                                                                         *)
(* Specifications.                                                         *)
(*   Spec          the run loop: Start, RunStrategy, Sleep and interrupts. *)
(*   FairSpec      Spec with the fairness of a sequential program.         *)
(*   SpecSignals   generate_signals applied to every frame of AllFrames.   *)
(*   SpecPosition  manage_position applied to every open position, price   *)
(*                 and order outcome of its input sets.                    *)
(*   SpecCrossover generate_signals called on consecutive bars of a series *)
(*                 whose moving averages vary.                             *)
(***************************************************************************)
EXTENDS Integers, Sequences, FiniteSets, TLC

VARIABLES
    pc,             \* where the program is: see Init, InitSignals, InitPosition
    position,       \* self.position (NoPosition models None)
    last_signal,    \* self.last_signal ("None" models None)
    df,             \* the frame of the current (last) cycle, after calculate_indicators
    current_price,  \* run_strategy's current_price / manage_position's argument
    signal,         \* what generate_signals returned in the last cycle, "NONE" if not called
    orders,         \* the place_order calls of the last cycle, in call order
    status,         \* how the last run_strategy call ended
    trigger,        \* which threshold manage_position logged in the last cycle
    last_observed,  \* the value generate_signals returned the last time it was called
    ma_votes,       \* SpecCrossover: the bars seen so far, each with its MA vote
    delay,          \* the argument of the time.sleep last entered, 0 once it returned
    closed,         \* the side of the last position closed, and what was observed since
    ledger          \* the net amount ordered: buys minus sells, while all were accepted

vars == <<pc, position, last_signal, df, current_price, signal, orders, status,
          trigger, last_observed, ma_votes, delay, closed, ledger>>

(***************************************************************************)
(* Parameters set in __init__.                                             *)
(***************************************************************************)
trade_amount == 1
stop_loss_pct == 2
take_profit_pct == 4
ma_short == 10
ma_long == 20
rsi_period == 14
rsi_oversold == 30
rsi_overbought == 70
bb_window == 20
bb_width == 2

Max(a, b) == IF a >= b THEN a ELSE b

(***************************************************************************)
(* Floating point: an undefined value is NaN, and every ordered comparison *)
(* with NaN is false.  Defined indicator values of the model are >= 0.     *)
(***************************************************************************)
NaN == 0 - 1

Lt_nan_as_zero(a, b) == (IF a = NaN THEN 0 ELSE a) < (IF b = NaN THEN 0 ELSE b)

Lt(a, b) == a # NaN /\ b # NaN /\ a < b
Le(a, b) == a # NaN /\ b # NaN /\ a <= b
Gt(a, b) == a # NaN /\ b # NaN /\ a > b
Ge(a, b) == a # NaN /\ b # NaN /\ a >= b

(***************************************************************************)
(* The position.  self.position is None or a dict with side, amount,       *)
(* entry_price and timestamp; the timestamp is never read.                 *)
(***************************************************************************)
NoPosition == [side |-> "none", amount |-> 0, entry_price |-> 0]

Position(side, amount, entry_price) ==
    [side |-> side, amount |-> amount, entry_price |-> entry_price]

(***************************************************************************)
(* calculate_indicators.  The model keeps the two rows generate_signals    *)
(* reads (iloc[-1] and iloc[-2]) and the columns it reads from them.  The  *)
(* magnitudes of the rolling and exponential means are inputs (raw); what  *)
(* is computed here is what the code adds to them: a rolling window of w   *)
(* bars is undefined before bar w-1, RSI is 100 - 100/(1 + gain/loss) with *)
(* floating-point division, and the Bollinger bands are middle -/+ 2 std.  *)
(***************************************************************************)
rolling(window, i, v) == IF i < window - 1 THEN NaN ELSE v

\* gain / loss, then 100 - 100 / (1 + rs): x/0 is inf (RSI 100), 0/0 is NaN.
rsi(gain, loss) ==
    IF gain = NaN \/ loss = NaN THEN NaN
    ELSE IF loss = 0 THEN (IF gain = 0 THEN NaN ELSE 100)
    ELSE (100 * gain) \div (gain + loss)

band(middle, std, sign) ==
    IF middle = NaN \/ std = NaN THEN NaN ELSE middle + sign * bb_width * std

calculate_indicators(raw) ==
    LET i == raw.len - 1
        j == raw.len - 2
    IN  [len |-> raw.len,
         latest |->
            [close       |-> raw.close,
             ma_short    |-> rolling(ma_short, i, raw.ma_short[2]),
             ma_long     |-> rolling(ma_long, i, raw.ma_long[2]),
             rsi         |-> rsi(rolling(rsi_period, i, raw.avg_gain),
                                 rolling(rsi_period, i, raw.avg_loss)),
             macd        |-> raw.macd[2],
             macd_signal |-> raw.macd_signal[2],
             bb_upper    |-> band(rolling(bb_window, i, raw.bb_middle),
                                  rolling(bb_window, i, raw.bb_std), 1),
             bb_lower    |-> band(rolling(bb_window, i, raw.bb_middle),
                                  rolling(bb_window, i, raw.bb_std), 0 - 1)],
         previous |->
            [ma_short    |-> rolling(ma_short, j, raw.ma_short[1]),
             ma_long     |-> rolling(ma_long, j, raw.ma_long[1]),
             macd        |-> raw.macd[1],
             macd_signal |-> raw.macd_signal[1]]]

\* pd.DataFrame(): what get_historical_data returns when the fetch raises
\* (and what an empty candle list gives); df.empty is len = 0.
EmptyFrame ==
    [len |-> 0,
     latest |-> [close |-> NaN, ma_short |-> NaN, ma_long |-> NaN, rsi |-> NaN,
                 macd |-> NaN, macd_signal |-> NaN, bb_upper |-> NaN, bb_lower |-> NaN],
     previous |-> [ma_short |-> NaN, ma_long |-> NaN, macd |-> NaN, macd_signal |-> NaN]]

(***************************************************************************)
(* generate_signals: the four sub-signals, the vote counts, the decision.  *)
(***************************************************************************)
ma_vote_level(f) ==
    IF Gt(f.latest.ma_short, f.latest.ma_long) THEN "buy"
    ELSE IF Lt(f.latest.ma_short, f.latest.ma_long) THEN "sell"
    ELSE "none"

ma_vote(f) ==
    IF Gt(f.latest.ma_short, f.latest.ma_long)
       /\ Le(f.previous.ma_short, f.previous.ma_long) THEN "buy"
    ELSE IF Lt(f.latest.ma_short, f.latest.ma_long)
            /\ Ge(f.previous.ma_short, f.previous.ma_long) THEN "sell"
    ELSE "none"

rsi_vote(f) ==
    IF Lt(f.latest.rsi, rsi_oversold) THEN "buy"
    ELSE IF Gt(f.latest.rsi, rsi_overbought) THEN "sell"
    ELSE "none"

macd_vote(f) ==
    IF Gt(f.latest.macd, f.latest.macd_signal)
       /\ Le(f.previous.macd, f.previous.macd_signal) THEN "buy"
    ELSE IF Lt(f.latest.macd, f.latest.macd_signal)
            /\ Ge(f.previous.macd, f.previous.macd_signal) THEN "sell"
    ELSE "none"

bb_vote(f) ==
    IF Lt(f.latest.close, f.latest.bb_lower) THEN "buy"
    ELSE IF Gt(f.latest.close, f.latest.bb_upper) THEN "sell"
    ELSE "none"

votes(f) == <<ma_vote(f), rsi_vote(f), macd_vote(f), bb_vote(f)>>

buy_signals(f) == Cardinality({k \in 1..4 : votes(f)[k] = "buy"})

sell_signals(f) == Cardinality({k \in 1..4 : votes(f)[k] = "sell"})

decision_majority(b, s) ==
    IF b >= 2 /\ b > s THEN "BUY"
    ELSE IF s >= 2 /\ s > b THEN "SELL"
    ELSE "HOLD"

decision(b, s) ==
    IF b >= 2 /\ s = 0 THEN "BUY"
    ELSE IF s >= 2 /\ b = 0 THEN "SELL"
    ELSE "HOLD"

insufficient_warmup_none(f) == FALSE

insufficient_warmup(f) == f.len < Max(ma_long, rsi_period)

\* What sub-signal 1 adds in a call of generate_signals: nothing when the
\* call returns at the warm-up test.
ma_crossover_vote(f) == IF insufficient_warmup(f) THEN "none" ELSE ma_vote(f)

generate_signals(f) ==
    IF insufficient_warmup(f) THEN "HOLD"
    ELSE decision(buy_signals(f), sell_signals(f))

(***************************************************************************)
(* place_order: the exchange accepts the order (a confirmation, truthy) or *)
(* the call raises and place_order returns {} (falsy).  The record is the  *)
(* call as the exchange sees it; purpose tags the call site ("close" for   *)
(* manage_position, "open" for run_strategy).                              *)
(***************************************************************************)
place_order(side, amount, accepted, purpose) ==
    [side |-> side, amount |-> amount, confirmed |-> accepted, purpose |-> purpose]

(***************************************************************************)
(* manage_position.  The exit tests, stop-loss first; then the order and   *)
(* the reset of self.position, which does not read place_order's result.   *)
(***************************************************************************)
long_exit_no_margin(entry_price, price) ==
    IF price <= entry_price THEN "stop_loss"
    ELSE IF price * 100 >= entry_price * (100 + take_profit_pct) THEN "take_profit"
    ELSE "none"

long_exit_strict(entry_price, price) ==
    IF price * 100 < entry_price * (100 - stop_loss_pct) THEN "stop_loss"
    ELSE IF price * 100 > entry_price * (100 + take_profit_pct) THEN "take_profit"
    ELSE "none"

long_exit(entry_price, price) ==
    IF price * 100 <= entry_price * (100 - stop_loss_pct) THEN "stop_loss"
    ELSE IF price * 100 >= entry_price * (100 + take_profit_pct) THEN "take_profit"
    ELSE "none"

short_exit_as_long(entry_price, price) ==
    IF price * 100 >= entry_price * (100 + take_profit_pct) THEN "stop_loss"
    ELSE IF price * 100 <= entry_price * (100 - stop_loss_pct) THEN "take_profit"
    ELSE "none"

short_exit_tp_first(entry_price, price) ==
    IF price * 100 <= entry_price * (100 - take_profit_pct) THEN "take_profit"
    ELSE IF price * 100 >= entry_price * (100 + stop_loss_pct) THEN "stop_loss"
    ELSE "none"

short_exit(entry_price, price) ==
    IF price * 100 >= entry_price * (100 + stop_loss_pct) THEN "stop_loss"
    ELSE IF price * 100 <= entry_price * (100 - take_profit_pct) THEN "take_profit"
    ELSE "none"

closing_side_same(side) == side

\* a long position is closed by a 'sell' order, a short one by a 'buy' order
closing_side(side) == IF side = "buy" THEN "sell" ELSE "buy"

manage_position(pos, price, accepted) ==
    IF pos = NoPosition
    THEN [position |-> pos, orders |-> <<>>, trigger |-> "none"]
    ELSE LET exit == IF pos.side = "buy" THEN long_exit(pos.entry_price, price)
                     ELSE short_exit(pos.entry_price, price)
             closing == closing_side(pos.side)
         IN  IF exit = "none"
             THEN [position |-> pos, orders |-> <<>>, trigger |-> "none"]
             ELSE [position |-> NoPosition,
                   orders |-> <<place_order(closing, pos.amount, accepted, "close")>>,
                   trigger |-> exit]

(***************************************************************************)
(* run_strategy.  candles is what get_historical_data returned (len = 0:   *)
(* the fetch failed or gave nothing), error is an exception raised by the  *)
(* indicator computation and caught by the except clause, close_ok and     *)
(* open_ok are the exchange's answers to the closing and opening orders.   *)
(***************************************************************************)
\* The candles of an empty DataFrame: no row, so no value is ever read.
EmptyRaw ==
    [len |-> 0, close |-> NaN, ma_short |-> <<NaN, NaN>>, ma_long |-> <<NaN, NaN>>,
     avg_gain |-> NaN, avg_loss |-> NaN, macd |-> <<NaN, NaN>>,
     macd_signal |-> <<NaN, NaN>>, bb_middle |-> NaN, bb_std |-> NaN]

\* The candles fetched, or pd.DataFrame() when fetch_ohlcv raised.
get_historical_data(fetched, raw) == IF fetched THEN raw ELSE EmptyRaw

may_open_always(pos) == TRUE

\* "if not self.position", after manage_position
may_open(pos) == pos = NoPosition

fires_every_cycle(s, last) == s \in {"BUY", "SELL"}

\* signal == 'BUY' and last_signal != 'BUY', or the same with 'SELL'
fires(s, last) == s \in {"BUY", "SELL"} /\ last # s

opened_unconfirmed(order, price) == Position(order.side, order.amount, price)

\* "if order:" and the dict assigned to self.position
opened(order, price) ==
    IF order.confirmed THEN Position(order.side, order.amount, price) ELSE NoPosition

last_signal_on_skip_hold(last) == "HOLD"

\* "if df.empty: return" leaves self.last_signal alone
last_signal_on_skip(last) == last

tested_position_before(pos, m) == pos

\* manage_position (line 280) runs before the test of line 283, which so
\* reads the position it left.
tested_position(pos, m) == m.position

last_signal_reset_on_close(last, m) == IF m.trigger # "none" THEN "None" ELSE last

\* manage_position never assigns self.last_signal, whatever it closes.
last_signal_after_manage(last, m) == last

last_signal_on_fire_kept(s, last) == last

\* self.last_signal = 'BUY' (line 296), self.last_signal = 'SELL' (line 308)
last_signal_on_fire(s, last) == s

interval == 300

backoff == 30

sleep_after_backoff(st) == IF st = "failed" THEN backoff ELSE interval

\* run_strategy catches its own exceptions and returns, so whatever the cycle
\* did the loop goes on to time.sleep(interval); time.sleep(30) is left to an
\* exception that escapes run_strategy.
sleep_after(st) == interval

run_strategy(pos, last, candles, error, close_ok, open_ok) ==
    IF candles.len = 0
    THEN [position |-> pos, last_signal |-> last_signal_on_skip(last), df |-> EmptyFrame,
          current_price |-> NaN, signal |-> "NONE", orders |-> <<>>,
          status |-> "skipped", trigger |-> "none"]
    ELSE IF error
    THEN [position |-> pos, last_signal |-> last,
          df |-> [EmptyFrame EXCEPT !.len = candles.len],
          current_price |-> NaN, signal |-> "NONE", orders |-> <<>>,
          status |-> "failed", trigger |-> "none"]
    ELSE
        LET f == calculate_indicators(candles)
            price == f.latest.close
            m == manage_position(pos, price, close_ok)
            s == generate_signals(f)
            side == IF s = "BUY" THEN "buy" ELSE "sell"
            order == place_order(side, trade_amount, open_ok, "open")
            kept == last_signal_after_manage(last, m)
        IN  IF ~may_open(tested_position(pos, m))
            THEN [position |-> m.position, last_signal |-> kept, df |-> f,
                  current_price |-> price, signal |-> "NONE", orders |-> m.orders,
                  status |-> "completed", trigger |-> m.trigger]
            ELSE IF fires(s, kept)
            THEN [position |-> opened(order, price),
                  last_signal |-> last_signal_on_fire(s, kept), df |-> f,
                  current_price |-> price, signal |-> s,
                  orders |-> Append(m.orders, order),
                  status |-> "completed", trigger |-> m.trigger]
            ELSE [position |-> m.position,
                  last_signal |-> IF s = "HOLD" THEN "HOLD" ELSE kept, df |-> f,
                  current_price |-> price, signal |-> s, orders |-> m.orders,
                  status |-> "completed", trigger |-> m.trigger]

(***************************************************************************)
(* Input sets.  A raw frame gives the length of the candle series, the     *)
(* latest close and the magnitudes of the means on the previous and the    *)
(* latest bar (<<previous, latest>>).                                      *)
(***************************************************************************)
Raw(lens, closes, ma, gains, macds, middles) ==
    [len : lens, close : closes,
     ma_short : ma \X ma, ma_long : ma \X ma,
     avg_gain : gains, avg_loss : gains,
     macd : macds \X macds, macd_signal : macds \X macds,
     bb_middle : middles, bb_std : {10}]

\* Prices of the run loop: around an entry of 1000, the stop-loss and
\* take-profit levels of a long (980, 1040) and of a short (1020, 960).
Prices == {940, 980, 1000, 1020, 1060}

\* Series lengths of the run loop: two below the warm-up, one above.
Lens == {14, 19, 21}

\* Frames of the run loop: RSI 20 or 80 and a MACD line crossing its signal
\* line (2) upwards or downwards from equality, the moving averages and the
\* bands neutral: two buy votes, two sell votes, or one of each.
CycleRaw ==
    {r \in Raw(Lens, Prices, {2}, {1, 4}, {1, 2, 3}, {1000}) :
        /\ r.avg_gain # r.avg_loss
        /\ r.macd[1] = 2 /\ r.macd[2] # 2
        /\ r.macd_signal = <<2, 2>>
        /\ r.bb_middle = 1000}

\* Frames of SpecSignals: every ordering of the two averages and of the two
\* MACD lines on both bars, RSI undefined, 0, 20, 50, 80 and 100, the close
\* below, inside and above the bands, below and above each warm-up length.
SignalLens == {14, 19, 20, 21, 100}

AllRaw == Raw(SignalLens, {1000}, {1, 2}, {0, 1, 4}, {1, 2}, {950, 1000, 1050})

AllFrames == {calculate_indicators(r) : r \in AllRaw}

\* Inputs of SpecPosition: entries 980 and 1000, and prices on, just below
\* and just above the four exit levels of an entry of 1000; and the entry 0
\* with the price 0, where the stop-loss and the take-profit tests both hold.
Entries == {0, 980, 1000}

MaxAmount == 2

Amounts == 1..MaxAmount

PositionPrices ==
    {0, 959, 960, 961, 979, 980, 981, 1000, 1019, 1020, 1021, 1039, 1040, 1041}

OpenPositions ==
    {Position(sd, a, e) : sd \in {"buy", "sell"}, a \in Amounts, e \in Entries}

\* What get_historical_data can return in a cycle.
Fetches == {get_historical_data(fetched, r) : fetched \in BOOLEAN, r \in CycleRaw}

(***************************************************************************)
(* The run loop.                                                           *)
(***************************************************************************)
\* Nothing closed yet: no side is barred from opening.
NothingClosed == [side |-> "none", cleared_at_close |-> FALSE, cleared_later |-> FALSE]

\* The history variables before anything happened.
Unobserved ==
    /\ ma_votes = <<>>
    /\ delay = 0
    /\ closed = NothingClosed
    /\ ledger = [net |-> 0, all_accepted |-> TRUE]

Idle ==
    /\ position = NoPosition
    /\ last_signal = "None"
    /\ df = EmptyFrame
    /\ current_price = NaN
    /\ signal = "NONE"
    /\ orders = <<>>
    /\ status = "none"
    /\ trigger = "none"
    /\ last_observed = "NONE"
    /\ Unobserved

Init == pc = "start" /\ Idle

\* run, up to the loop: get_balance catches its own errors, the log line
\* reads the balance with defaults.
Start ==
    /\ pc = "start"
    /\ pc' = "strategy"
    /\ UNCHANGED <<position, last_signal, df, current_price, signal, orders,
                   status, trigger, last_observed, ma_votes, delay, closed, ledger>>

\* One call of run_strategy that returns: every Exception is caught inside
\* it, so the loop goes on to time.sleep(interval).
\* The signal that opens a position of the given side.
SignalOf(side) == IF side = "buy" THEN "BUY" ELSE "SELL"

\* What has happened since the last stop-loss or take-profit close: the side
\* closed, whether the closing cycle itself observed HOLD or the opposite
\* signal, and whether a later cycle did.  Forgotten once a position opens.
Closed(c, pos, r) ==
    IF r.position # NoPosition THEN NothingClosed
    ELSE IF pos # NoPosition /\ r.trigger # "none"
    THEN [side |-> pos.side,
          cleared_at_close |-> r.signal \in {"HOLD", SignalOf(closing_side(pos.side))},
          cleared_later |-> FALSE]
    ELSE IF c.side # "none" /\ r.signal \in {"HOLD", SignalOf(closing_side(c.side))}
    THEN [c EXCEPT !.cleared_later = TRUE]
    ELSE c

RECURSIVE NetQuantity(_)
\* Sum of the buy amounts minus sum of the sell amounts of a cycle's orders.
NetQuantity(os) ==
    IF os = <<>> THEN 0
    ELSE (IF Head(os).side = "buy" THEN Head(os).amount ELSE 0 - Head(os).amount)
         + NetQuantity(Tail(os))

\* The exchange's net quantity for as long as it accepted every order.
Ledger(l, os) ==
    IF l.all_accepted /\ \A i \in DOMAIN os : os[i].confirmed
    THEN [net |-> l.net + NetQuantity(os), all_accepted |-> TRUE]
    ELSE [net |-> 0, all_accepted |-> FALSE]

RunStrategy ==
    /\ pc = "strategy"
    /\ \E candles \in Fetches, error \in BOOLEAN,
          close_ok \in BOOLEAN, open_ok \in BOOLEAN :
        \E r \in {run_strategy(position, last_signal, candles, error, close_ok, open_ok)} :
            /\ position' = r.position
            /\ last_signal' = r.last_signal
            /\ df' = r.df
            /\ current_price' = r.current_price
            /\ signal' = r.signal
            /\ orders' = r.orders
            /\ status' = r.status
            /\ trigger' = r.trigger
            /\ last_observed' = IF r.signal = "NONE" THEN last_observed ELSE r.signal
            /\ delay' = sleep_after(r.status)
            /\ closed' = Closed(closed, position, r)
            /\ ledger' = Ledger(ledger, r.orders)
    /\ pc' = "sleep"
    /\ UNCHANGED ma_votes

on_interrupt_uncaught == "crashed"

\* except KeyboardInterrupt: log and break
on_interrupt == "stopped"

\* KeyboardInterrupt while run_strategy waits for the candles: it is not an
\* Exception, so it passes run_strategy's except clause and reaches the loop's.
InterruptStrategy ==
    /\ pc = "strategy"
    /\ pc' = on_interrupt
    /\ UNCHANGED <<position, last_signal, df, current_price, signal, orders,
                   status, trigger, last_observed, ma_votes, delay, closed, ledger>>

\* time.sleep(interval) returns.
Sleep ==
    /\ pc = "sleep"
    /\ pc' = "strategy"
    /\ delay' = 0
    /\ UNCHANGED <<position, last_signal, df, current_price, signal, orders,
                   status, trigger, last_observed, ma_votes, closed, ledger>>

\* KeyboardInterrupt during time.sleep(interval).
InterruptSleep ==
    /\ pc = "sleep"
    /\ pc' = on_interrupt
    /\ UNCHANGED <<position, last_signal, df, current_price, signal, orders,
                   status, trigger, last_observed, ma_votes, delay, closed, ledger>>

Next == Start \/ RunStrategy \/ InterruptStrategy \/ Sleep \/ InterruptSleep

Spec == Init /\ [][Next]_vars

\* A sequential program: each call returns and the sleep ends.
FairSpec == Spec /\ WF_vars(Start) /\ WF_vars(RunStrategy) /\ WF_vars(Sleep)

(***************************************************************************)
(* generate_signals on its own, over AllFrames.                            *)
(***************************************************************************)
InitSignals ==
    /\ pc = "generate_signals"
    /\ df \in AllFrames
    /\ position = NoPosition
    /\ last_signal = "None"
    /\ current_price = df.latest.close
    /\ signal = "NONE"
    /\ orders = <<>>
    /\ status = "none"
    /\ trigger = "none"
    /\ last_observed = "NONE"
    /\ Unobserved

GenerateSignals ==
    /\ pc = "generate_signals"
    /\ signal' = generate_signals(df)
    /\ last_observed' = signal'
    /\ pc' = "returned"
    /\ UNCHANGED <<position, last_signal, df, current_price, orders, status, trigger,
                   ma_votes, delay, closed, ledger>>

NextSignals == GenerateSignals

SpecSignals == InitSignals /\ [][NextSignals]_vars

(***************************************************************************)
(* manage_position on its own, over OpenPositions \X PositionPrices.       *)
(***************************************************************************)
InitPosition ==
    /\ pc = "manage_position"
    /\ position \in OpenPositions \cup {NoPosition}
    /\ current_price \in PositionPrices
    /\ last_signal = "None"
    /\ df = EmptyFrame
    /\ signal = "NONE"
    /\ orders = <<>>
    /\ status = "none"
    /\ trigger = "none"
    /\ last_observed = "NONE"
    /\ Unobserved

ManagePosition ==
    /\ pc = "manage_position"
    /\ \E accepted \in BOOLEAN :
        \E m \in {manage_position(position, current_price, accepted)} :
            /\ position' = m.position
            /\ orders' = m.orders
            /\ trigger' = m.trigger
    /\ pc' = "returned"
    /\ UNCHANGED <<last_signal, df, current_price, signal, status, last_observed,
                   ma_votes, delay, closed, ledger>>

NextPosition == ManagePosition

SpecPosition == InitPosition /\ [][NextPosition]_vars

(***************************************************************************)
(* generate_signals over consecutive bars: each step is one call on the    *)
(* series so far, then the arrival of the next bar, whose previous row is  *)
(* the latest row of the call before.  Only the two moving averages vary.  *)
(***************************************************************************)
MaxBars == 4

\* get_historical_data(limit=100): the series grows up to 100 candles.
fetch_limit == 100

CrossoverRaw ==
    {r \in Raw({19, fetch_limit}, {1000}, {1, 2}, {1}, {2}, {1000}) : TRUE}

NextBarRaw(f, short, long) ==
    [len |-> IF f.len < fetch_limit THEN f.len + 1 ELSE fetch_limit,
     close |-> 1000,
     ma_short |-> <<f.latest.ma_short, short>>,
     ma_long |-> <<f.latest.ma_long, long>>,
     avg_gain |-> 1, avg_loss |-> 1,
     macd |-> <<2, 2>>, macd_signal |-> <<2, 2>>,
     bb_middle |-> 1000, bb_std |-> 10]

InitCrossover ==
    /\ pc = "crossover"
    /\ df \in {calculate_indicators(r) : r \in CrossoverRaw}
    /\ position = NoPosition
    /\ last_signal = "None"
    /\ current_price = df.latest.close
    /\ signal = "NONE"
    /\ orders = <<>>
    /\ status = "none"
    /\ trigger = "none"
    /\ last_observed = "NONE"
    /\ Unobserved

NextBar ==
    /\ pc = "crossover"
    /\ Len(ma_votes) < MaxBars
    /\ signal' = generate_signals(df)
    /\ last_observed' = signal'
    /\ ma_votes' = Append(ma_votes,
                          [short |-> df.latest.ma_short, long |-> df.latest.ma_long,
                           prev_short |-> df.previous.ma_short,
                           prev_long |-> df.previous.ma_long,
                           vote |-> ma_crossover_vote(df)])
    /\ \E short \in {1, 2}, long \in {1, 2} :
        df' = calculate_indicators(NextBarRaw(df, short, long))
    /\ UNCHANGED <<pc, position, last_signal, current_price, orders, status, trigger,
                   delay, closed, ledger>>

NextCrossover == NextBar

SpecCrossover == InitCrossover /\ [][NextCrossover]_vars

(***************************************************************************)
(* Properties.                                                             *)
(***************************************************************************)
\* A step that is one whole call of run_strategy.
Cycle == pc = "strategy" /\ pc' = "sleep"

OpeningOrders(os) == {i \in DOMAIN os : os[i].purpose = "open"}

\* C1: once the warm-up test has passed, generate_signals returns BUY exactly
\* when at least two sub-signals voted buy and none voted sell, SELL exactly
\* when at least two voted sell and none voted buy, and HOLD otherwise; it
\* never returns BUY on a frame where a sub-signal votes sell, nor SELL on a
\* frame where a sub-signal votes buy.
C1_VoteRule ==
    pc = "returned" =>
        /\ signal \in {"BUY", "SELL", "HOLD"}
        /\ df.len >= Max(ma_long, rsi_period) =>
            /\ signal = "BUY" <=> (buy_signals(df) >= 2 /\ sell_signals(df) = 0)
            /\ signal = "SELL" <=> (sell_signals(df) >= 2 /\ buy_signals(df) = 0)
        /\ signal = "BUY" => \A k \in 1..4 : votes(df)[k] # "sell"
        /\ signal = "SELL" => \A k \in 1..4 : votes(df)[k] # "buy"

\* Three buy votes against one sell vote: HOLD, not the majority side.
C1_Witness ==
    /\ pc = "returned"
    /\ df.len >= Max(ma_long, rsi_period)
    /\ buy_signals(df) = 3
    /\ sell_signals(df) = 1
    /\ signal = "HOLD"

\* C2: in a cycle whose candle series is shorter than max(ma_long, rsi_period),
\* generate_signals returns HOLD whenever it is called, whatever the indicator
\* values, and no opening order is requested.
C2_WarmupHolds ==
    (status = "completed" /\ df.len < Max(ma_long, rsi_period)) =>
        /\ signal \in {"NONE", "HOLD"}
        /\ OpeningOrders(orders) = {}

\* 19 candles whose RSI and MACD sub-signals both vote buy: HOLD, no order.
C2_Witness ==
    /\ status = "completed"
    /\ df.len = 19
    /\ rsi_vote(df) = "buy"
    /\ macd_vote(df) = "buy"
    /\ signal = "HOLD"
    /\ orders = <<>>

\* C3: manage_position on a long position closes it exactly when
\* price <= entry * (1 - stop_loss_pct) or price >= entry * (1 + take_profit_pct);
\* when it closes it requests exactly one sell order for the position's amount,
\* otherwise the position is unchanged and no order is requested.
C3_LongExit ==
    [][(pc = "manage_position" /\ position.side = "buy") =>
        LET hit == \/ current_price * 100 <= position.entry_price * (100 - stop_loss_pct)
                   \/ current_price * 100 >= position.entry_price * (100 + take_profit_pct)
        IN  /\ hit <=> position' = NoPosition
            /\ hit => /\ Len(orders') = 1
                      /\ orders'[1].side = "sell"
                      /\ orders'[1].amount = position.amount
            /\ ~hit => (position' = position /\ orders' = <<>>)]_vars

\* Entry 100.0, price 97.9: closed by the stop-loss with one sell order of 2.
\* (At 979 the stop-loss closes no long entered at 0 or 980: the entry was 1000.)
C3_Witness ==
    /\ pc = "returned"
    /\ current_price = 979
    /\ position = NoPosition
    /\ trigger = "stop_loss"
    /\ Len(orders) = 1
    /\ orders[1].side = "sell"
    /\ orders[1].amount = 2

\* C4: manage_position on a short position closes it exactly when
\* price >= entry * (1 + stop_loss_pct) or price <= entry * (1 - take_profit_pct);
\* when it closes it requests exactly one buy order for the position's amount,
\* otherwise the position is unchanged and no order is requested.
C4_ShortExit ==
    [][(pc = "manage_position" /\ position.side = "sell") =>
        LET hit == \/ current_price * 100 >= position.entry_price * (100 + stop_loss_pct)
                   \/ current_price * 100 <= position.entry_price * (100 - take_profit_pct)
        IN  /\ hit <=> position' = NoPosition
            /\ hit => /\ Len(orders') = 1
                      /\ orders'[1].side = "buy"
                      /\ orders'[1].amount = position.amount
            /\ ~hit => (position' = position /\ orders' = <<>>)]_vars

\* Entry 100.0, price 96.0: closed by the take-profit with one buy order of 2.
\* (At 960 the take-profit closes no short entered at 0 or 980: the entry was 1000.)
C4_Witness ==
    /\ pc = "returned"
    /\ current_price = 960
    /\ position = NoPosition
    /\ trigger = "take_profit"
    /\ Len(orders) = 1
    /\ orders[1].side = "buy"
    /\ orders[1].amount = 2

\* C5: a cycle whose orders were all rejected leaves the position as it was,
\* for an opening order as for a closing order.
C5_RejectedOrderKeepsPosition ==
    [][(Cycle /\ orders' # <<>> /\ \A i \in DOMAIN orders' : ~orders'[i].confirmed)
        => position' = position]_vars

\* C6: a cycle creates a position only with a confirmed opening order of
\* trade_amount: a long on a BUY signal with a buy order, a short on a SELL
\* signal with a sell order, entered at the latest close of the cycle.
C6_OpenOnlyOnConfirmation ==
    [][(Cycle /\ position' # NoPosition /\ position' # position) =>
        /\ orders' # <<>>
        /\ LET o == orders'[Len(orders')]
           IN  /\ o.purpose = "open"
               /\ o.confirmed
               /\ o.amount = trade_amount
               /\ o.side = position'.side
        /\ position'.side = "buy" <=> signal' = "BUY"
        /\ position'.side = "sell" <=> signal' = "SELL"
        /\ position'.amount = trade_amount
        /\ position'.entry_price = df'.latest.close]_vars

\* A long opened in the last cycle on a BUY signal, at that cycle's close.
C6_Witness ==
    /\ pc = "sleep"
    /\ signal = "BUY"
    /\ position = Position("buy", trade_amount, df.latest.close)
    /\ orders # <<>>
    /\ orders[Len(orders)].confirmed

\* C7: an opening order is requested only with no position open: the cycle
\* started without a position, or manage_position closed it earlier in the
\* same cycle.
C7_SinglePosition ==
    [][Cycle =>
        \A i \in OpeningOrders(orders') :
            \/ position = NoPosition
            \/ (i > 1 /\ orders'[1].purpose = "close" /\ trigger' # "none")]_vars

\* A position closed and the opposite one opened in one cycle.
C7_Witness ==
    /\ pc = "sleep"
    /\ Len(orders) = 2
    /\ orders[1].purpose = "close"
    /\ orders[2].purpose = "open"
    /\ position # NoPosition

\* C8: an opening order is requested only in a cycle whose signal differs from
\* the signal of the last cycle that consulted the signal generator.
C8_AntiChatter ==
    [][(Cycle /\ OpeningOrders(orders') # {}) =>
        /\ signal' \in {"BUY", "SELL"}
        /\ signal' # last_observed]_vars

\* The same BUY again with no position: no order.
C8_Witness ==
    /\ pc = "sleep"
    /\ status = "completed"
    /\ signal = "BUY"
    /\ last_signal = "BUY"
    /\ position = NoPosition
    /\ orders = <<>>

\* C9: a cycle whose fetch gave an empty series places no order, does not
\* evaluate the position or the signal, leaves position and last_signal as
\* they were, and the loop goes on to its sleep.
C9_SkipOnFetchFailure ==
    [][(Cycle /\ df'.len = 0) =>
        /\ status' = "skipped"
        /\ orders' = <<>>
        /\ signal' = "NONE"
        /\ trigger' = "none"
        /\ position' = position
        /\ last_signal' = last_signal]_vars

\* A skipped cycle with a position open and a signal remembered.
C9_Witness ==
    /\ pc = "sleep"
    /\ status = "skipped"
    /\ position # NoPosition
    /\ last_signal # "None"

\* C10: run never ends on an error: every call of run_strategy, failed or
\* not, leads to the sleep (or to the break on an interrupt), the sleep is
\* followed by the next cycle unless an interrupt stops the loop, and an
\* interrupt always ends the loop by the break.
C10_LoopSurvivesErrors ==
    /\ [](pc \in {"start", "strategy", "sleep", "stopped"})
    /\ [][pc = "strategy" => pc' \in {"sleep", "stopped"}]_vars
    /\ [][pc = "sleep" => pc' \in {"strategy", "stopped"}]_vars
    /\ (pc = "sleep") ~> (pc = "strategy" \/ pc = "stopped")

\* The loop back at the top after a failed cycle.
C10_Witness ==
    /\ pc = "strategy"
    /\ status = "failed"

\* C11: in a cycle that runs to its end the position manager acts before the
\* signal generator: generate_signals is called exactly when no position is
\* open after manage_position, a closing order precedes the opening order, and
\* so a cycle that closes a position still evaluates the signal.
C11_ManageThenSignal ==
    [][(Cycle /\ status' = "completed") =>
        LET closed_now == position # NoPosition /\ trigger' # "none"
            free == position = NoPosition \/ closed_now
        IN  /\ signal' # "NONE" <=> free
            /\ closed_now => (orders' # <<>> /\ orders'[1].purpose = "close")
            /\ \A i \in OpeningOrders(orders') : i = Len(orders')
            /\ \A i \in DOMAIN orders' :
                 orders'[i].purpose = "close" => (i = 1 /\ closed_now)]_vars

\* A long closed by its stop-loss and a short opened on the SELL signal of the
\* same cycle.
C11_Witness ==
    /\ pc = "sleep"
    /\ trigger = "stop_loss"
    /\ signal = "SELL"
    /\ Len(orders) = 2
    /\ orders[1] = place_order("sell", trade_amount, TRUE, "close")
    /\ orders[2] = place_order("sell", trade_amount, TRUE, "open")
    /\ position = Position("sell", trade_amount, current_price)

\* C12: manage_position tests the stop-loss before the take-profit: whenever
\* the stop-loss test holds the close is logged as a stop-loss, also when the
\* take-profit test holds too (entry price 0, price 0); a take-profit is
\* logged only when the stop-loss test fails; and a call requests at most one
\* closing order.
C12_StopLossFirst ==
    [][(pc = "manage_position" /\ position # NoPosition) =>
        LET e == position.entry_price
            p == current_price
            sl == IF position.side = "buy"
                  THEN p * 100 <= e * (100 - stop_loss_pct)
                  ELSE p * 100 >= e * (100 + stop_loss_pct)
            tp == IF position.side = "buy"
                  THEN p * 100 >= e * (100 + take_profit_pct)
                  ELSE p * 100 <= e * (100 - take_profit_pct)
        IN  /\ Len(orders') <= 1
            /\ sl => trigger' = "stop_loss"
            /\ trigger' = "take_profit" <=> (tp /\ ~sl)
            /\ trigger' = "none" <=> (~sl /\ ~tp)
            /\ Len(orders') = 1 <=> trigger' # "none"]_vars

\* A short closed at price 0 as a stop-loss: only an entry of 0 passes the
\* stop-loss test at 0, and there the take-profit test holds as well.
C12_Witness ==
    /\ pc = "returned"
    /\ current_price = 0
    /\ trigger = "stop_loss"
    /\ Len(orders) = 1
    /\ orders[1].side = "buy"

\* The values each sub-signal reads from the frame.
Reads(f) ==
    <<{f.latest.ma_short, f.latest.ma_long, f.previous.ma_short, f.previous.ma_long},
      {f.latest.rsi},
      {f.latest.macd, f.latest.macd_signal, f.previous.macd, f.previous.macd_signal},
      {f.latest.close, f.latest.bb_lower, f.latest.bb_upper}>>

\* C13: a sub-signal that reads an undefined value on the latest or the
\* previous bar votes neither buy nor sell, so BUY (SELL) is returned only
\* with two buy (sell) votes of sub-signals whose values are all defined.
C13_UndefinedNeverVotes ==
    pc = "returned" =>
        /\ \A k \in 1..4 : NaN \in Reads(df)[k] => votes(df)[k] = "none"
        /\ signal = "BUY" =>
            Cardinality({k \in 1..4 : NaN \notin Reads(df)[k] /\ votes(df)[k] = "buy"}) >= 2
        /\ signal = "SELL" =>
            Cardinality({k \in 1..4 : NaN \notin Reads(df)[k] /\ votes(df)[k] = "sell"}) >= 2

\* RSI undefined (no gain, no loss) next to a single buy vote: HOLD, where an
\* RSI read as 0 would have been a second buy vote.
C13_Witness ==
    /\ pc = "returned"
    /\ df.len >= Max(ma_long, rsi_period)
    /\ df.latest.rsi = NaN
    /\ rsi_vote(df) = "none"
    /\ buy_signals(df) = 1
    /\ sell_signals(df) = 0
    /\ signal = "HOLD"

\* C14: once rsi_period candles exist, the RSI of the latest bar is a defined
\* value between 0 and 100, also when the average loss is 0.
C14_RsiDefined ==
    df.len >= rsi_period => (df.latest.rsi # NaN /\ df.latest.rsi \in 0..100)

\* C15: a cycle that finds a position open and neither its stop-loss nor its
\* take-profit level reached does not call generate_signals, requests no
\* order, and leaves position and last_signal as they were.
C15_HeldPositionUntouched ==
    [][(Cycle /\ status' = "completed" /\ position # NoPosition) =>
        LET e == position.entry_price
            p == df'.latest.close
            reached ==
                IF position.side = "buy"
                THEN \/ p * 100 <= e * (100 - stop_loss_pct)
                     \/ p * 100 >= e * (100 + take_profit_pct)
                ELSE \/ p * 100 >= e * (100 + stop_loss_pct)
                     \/ p * 100 <= e * (100 - take_profit_pct)
        IN  ~reached =>
                /\ signal' = "NONE"
                /\ orders' = <<>>
                /\ trigger' = "none"
                /\ position' = position
                /\ last_signal' = last_signal]_vars

\* A long held through a cycle whose frame carries two sell votes, at a price
\* below its entry and above its stop-loss.
C15_Witness ==
    /\ pc = "sleep"
    /\ status = "completed"
    /\ position.side = "buy"
    /\ current_price < position.entry_price
    /\ df.len >= Max(ma_long, rsi_period)
    /\ sell_signals(df) = 2
    /\ signal = "NONE"
    /\ orders = <<>>
    /\ last_signal = "BUY"

\* C16: on every bar the MA sub-signal votes buy exactly when the short
\* average is above the long one and was at or below it on the bar before,
\* sell exactly when it is below and was at or above; so it votes nothing on a
\* bar where the order of the averages is the one of the bar before, and never
\* casts the same vote on two consecutive bars.
C16_CrossoverOnce ==
    \A i \in DOMAIN ma_votes :
        LET b == ma_votes[i]
            defined == NaN \notin {b.short, b.long, b.prev_short, b.prev_long}
        IN  /\ b.vote = "buy" <=>
                (defined /\ b.short > b.long /\ b.prev_short <= b.prev_long)
            /\ b.vote = "sell" <=>
                (defined /\ b.short < b.long /\ b.prev_short >= b.prev_long)
            /\ (defined /\ b.short > b.long /\ b.prev_short > b.prev_long)
                => b.vote = "none"
            /\ (defined /\ b.short < b.long /\ b.prev_short < b.prev_long)
                => b.vote = "none"
            /\ i > 1 => /\ b.prev_short = ma_votes[i - 1].short
                        /\ b.prev_long = ma_votes[i - 1].long
                        /\ ~(b.vote # "none" /\ b.vote = ma_votes[i - 1].vote)

\* Short above long, then below, then still below: no vote, sell, no vote.
C16_Witness ==
    /\ Len(ma_votes) >= 3
    /\ ma_votes[1].short > ma_votes[1].long
    /\ ma_votes[1].prev_short > ma_votes[1].prev_long
    /\ ma_votes[1].prev_long # NaN
    /\ ma_votes[1].vote = "none"
    /\ ma_votes[2].vote = "sell"
    /\ ma_votes[3].short < ma_votes[3].long
    /\ ma_votes[3].vote = "none"

\* C17 as stated: after a cycle that ended in an unexpected failure the loop
\* waits the fixed back-off delay, which is longer than the poll interval;
\* after a cycle that completed it waits the poll interval.
C17_BackoffAfterFailure ==
    /\ (pc = "sleep" /\ status = "failed") => (delay = backoff /\ backoff > interval)
    /\ (pc = "sleep" /\ status = "completed") => delay = interval

\* C17 amended: after every cycle from which run_strategy returns (completed,
\* skipped, or failed with the error caught inside) the loop waits the poll
\* interval; the fixed delay is shorter than the poll interval.
C17_IntervalAfterEveryCycle ==
    /\ pc = "sleep" => (status \in {"completed", "skipped", "failed"} /\ delay = interval)
    /\ backoff < interval

\* A failed cycle followed by the wait of the poll interval.
C17_Witness == pc = "sleep" /\ status = "failed" /\ delay = interval /\ delay > backoff

\* C18: between cycles an open long position implies last_signal = 'BUY' and
\* an open short one last_signal = 'SELL'; a cycle that starts and ends with
\* the same open position leaves last_signal as it was.
C18_LastSignalMatchesPosition ==
    /\ [](pc \in {"strategy", "sleep"} =>
            /\ (position # NoPosition /\ position.side = "buy") => last_signal = "BUY"
            /\ (position # NoPosition /\ position.side = "sell") => last_signal = "SELL")
    /\ [][(Cycle /\ position # NoPosition /\ position' # NoPosition /\ trigger' = "none")
            => (position' = position /\ last_signal' = last_signal)]_vars

\* A short position held through a completed cycle, last_signal still 'SELL'.
C18_Witness ==
    /\ pc = "sleep" /\ status = "completed" /\ trigger = "none" /\ orders = <<>>
    /\ position # NoPosition /\ position.side = "sell"
    /\ last_signal = "SELL"

ClosingCycle == Cycle /\ position # NoPosition /\ trigger' # "none"

\* A cycle that opens a position on the side closed last.
ReopensClosedSide ==
    /\ Cycle
    /\ position = NoPosition
    /\ position' # NoPosition
    /\ closed.side = position'.side

\* C19 as stated: the cycle that closes a position opens nothing on the side
\* it closed, and that side is opened again only after a later cycle without
\* position observed HOLD or the opposite signal.
C19_ReopenOnlyAfterLaterCycle ==
    [][/\ ClosingCycle => (position' = NoPosition \/ position'.side # position.side)
       /\ ReopensClosedSide => closed.cleared_later]_vars

\* C19 amended: the cycle that closes a position opens nothing on the side it
\* closed, and that side is opened again only after a cycle without position,
\* the closing cycle itself or a later one, observed HOLD or the opposite
\* signal.
C19_ReopenOnlyAfterCleared ==
    [][/\ ClosingCycle => (position' = NoPosition \/ position'.side # position.side)
       /\ ReopensClosedSide => (closed.cleared_at_close \/ closed.cleared_later)]_vars

\* A long position is closed in a cycle that observes HOLD; the closed side
\* is then free although no later cycle has observed anything.
C19_Witness ==
    /\ pc = "sleep"
    /\ position = NoPosition
    /\ trigger # "none"
    /\ closed = [side |-> "buy", cleared_at_close |-> TRUE, cleared_later |-> FALSE]
    /\ last_signal = "HOLD"

\* C20: while every order has been accepted the net quantity ordered is
\* +amount with a long position, -amount with a short one and 0 with none;
\* an opening order has the side and amount of the position it opens, and a
\* closing order the opposite side and the same amount.
C20_NetQuantityMatchesPosition ==
    /\ [](ledger.all_accepted =>
            ledger.net = IF position = NoPosition THEN 0
                         ELSE IF position.side = "buy" THEN position.amount
                         ELSE 0 - position.amount)
    /\ [][ClosingCycle =>
            /\ orders'[1].purpose = "close"
            /\ orders'[1].side # position.side
            /\ orders'[1].side \in {"buy", "sell"}
            /\ orders'[1].amount = position.amount]_vars
    /\ [][(Cycle /\ position' # NoPosition /\ position' # position) =>
            /\ orders'[Len(orders')].purpose = "open"
            /\ orders'[Len(orders')].side = position'.side
            /\ orders'[Len(orders')].amount = position'.amount
            /\ position'.amount = trade_amount]_vars

\* A long position closed and a short one opened in the same cycle, every
\* order accepted: the net quantity went from +1 to -1.
C20_Witness ==
    /\ pc = "sleep"
    /\ ledger = [net |-> 0 - trade_amount, all_accepted |-> TRUE]
    /\ Len(orders) = 2
    /\ orders[1].purpose = "close" /\ orders[1].side = "sell"
    /\ position # NoPosition /\ position.side = "sell"

====
